---- MODULE Spec2Model ----
(***************************************************************************)
(* A model of the stack-based regular expression parser of src/parse.rs.   *)
(* The pattern is read one character at a time; the state is the parser's  *)
(* stack of nodes and markers, its capture counter and the value returned. *)
(***************************************************************************)
EXTENDS Integers, Sequences, FiniteSets, TLC

\* Longest pattern that is scanned.
MaxLen == 6

RepeatOps == {"*", "+", "?"}
Literals == {"a", "b"}

VARIABLES
    s,      \* the characters of the pattern shifted off so far (s without t)
    stack,  \* p.stack, bottom first
    ncap,   \* p.ncap
    ret,    \* "none" while scanning, else "Ok", "MissingParen", "RepeatArgument" or "fail"
    site,   \* the return statement that was taken ("none" while scanning)
    altn,   \* subs.len() of the alternate() call of the last step, -1 if it was not called
    kept,   \* history: <<>> or one earlier call of parse, its pattern and what it returned
    other   \* history: a call with another pattern returned after the kept one

vars == <<s, stack, ncap, ret, site, altn, kept, other>>

\* What one call of parse leaves alone: the record of the earlier calls.
calls == <<kept, other>>

----------------------------------------------------------------------------
\* enum Regexp

Empty == [tag |-> "Empty"]
Literal(c) == [tag |-> "Literal", c |-> c]
Concat(subs) == [tag |-> "Concat", subs |-> subs]
Alternate(subs) == [tag |-> "Alternate", subs |-> subs]
Star(sub) == [tag |-> "Star", sub |-> sub]
Plus(sub) == [tag |-> "Plus", sub |-> sub]
Quest(sub) == [tag |-> "Quest", sub |-> sub]
Capture(cap, sub) == [tag |-> "Capture", cap |-> cap, sub |-> sub]
LeftParen(cap) == [tag |-> "LeftParen", cap |-> cap]
VerticalBar == [tag |-> "VerticalBar"]

\* is_marker() that forgets VerticalBar.
is_marker_paren_only(re) == re.tag \in {"LeftParen"}
is_marker(re) == re.tag \in {"LeftParen", "VerticalBar"}
is_left_paren(re) == re.tag = "LeftParen"
is_vertical_bar(re) == re.tag = "VerticalBar"

----------------------------------------------------------------------------
\* impl Parser

\* Backward scan that stops at a LeftParen only.
RECURSIVE marker_scan_paren_only(_, _)
marker_scan_paren_only(st, i) ==
    IF i > 0 /\ ~is_left_paren(st[i]) THEN marker_scan_paren_only(st, i - 1) ELSE i

\* The backward scan of concat() and alternate(): the index i at which
\* the loop `while i > 0 && !self.stack[i-1].is_marker()` stops.
RECURSIVE marker_scan(_, _)
marker_scan(st, i) ==
    IF i > 0 /\ ~is_marker(st[i]) THEN marker_scan(st, i - 1) ELSE i

\* vec::tailn(self.stack, i)
tailn(st, i) == SubSeq(st, i + 1, Len(st))

\* self.stack.truncate(i)
truncate(st, i) == SubSeq(st, 1, i)

\* concat() that collects the operands top first.
concat_reversed(st) ==
    LET i == marker_scan(st, Len(st))
        subs == tailn(st, i)
        rev == [k \in 1..Len(subs) |-> subs[Len(subs) + 1 - k]]
        re == CASE Len(subs) = 0 -> Empty
                [] Len(subs) = 1 -> subs[1]
                [] OTHER -> Concat(rev)
    IN Append(truncate(st, i), re)

\* concat() that wraps zero operands in a Concat instead of pushing Empty.
concat_wrap_empty(st) ==
    LET i == marker_scan(st, Len(st))
        subs == tailn(st, i)
        re == CASE Len(subs) = 1 -> subs[1]
                [] OTHER -> Concat(subs)
    IN Append(truncate(st, i), re)

\* concat() that wraps a single operand too.
concat_wrap_one(st) ==
    LET i == marker_scan(st, Len(st))
        subs == tailn(st, i)
        re == CASE Len(subs) = 0 -> Empty
                [] OTHER -> Concat(subs)
    IN Append(truncate(st, i), re)

concat(st) ==
    LET i == marker_scan(st, Len(st))
        subs == tailn(st, i)
        re == CASE Len(subs) = 0 -> Empty
                [] Len(subs) = 1 -> subs[1]
                [] OTHER -> Concat(subs)
    IN Append(truncate(st, i), re)

\* alternate() that collects the branches in reverse order.
alternate_reversed(st) ==
    LET i == marker_scan(st, Len(st))
        subs == tailn(st, i)
        rev == [k \in 1..Len(subs) |-> subs[Len(subs) + 1 - k]]
    IN CASE Len(subs) = 0 -> [failed |-> TRUE, n |-> 0, stack |-> truncate(st, i)]
         [] Len(subs) = 1 -> [failed |-> FALSE, n |-> 1,
                              stack |-> Append(truncate(st, i), subs[1])]
         [] OTHER -> [failed |-> FALSE, n |-> Len(subs),
                      stack |-> Append(truncate(st, i), Alternate(rev))]

\* alternate() fails when it collects nothing; failed is then TRUE and the
\* stack is the truncated one.
alternate(st) ==
    LET i == marker_scan(st, Len(st))
        subs == tailn(st, i)
    IN CASE Len(subs) = 0 -> [failed |-> TRUE, n |-> 0, stack |-> truncate(st, i)]
         [] Len(subs) = 1 -> [failed |-> FALSE, n |-> 1,
                              stack |-> Append(truncate(st, i), subs[1])]
         [] OTHER -> [failed |-> FALSE, n |-> Len(subs),
                      stack |-> Append(truncate(st, i), Alternate(subs))]

\* swap_vertical_bar() that never finds the bar.
swap_vertical_bar_never(st) == [swapped |-> FALSE, stack |-> st]

\* swap_vertical_bar() that accepts any marker below the top.
swap_vertical_bar_any_marker(st) ==
    LET n == Len(st) IN
    IF n >= 2 /\ is_marker(st[n - 1])
    THEN [swapped |-> TRUE,
          stack |-> [st EXCEPT ![n - 1] = st[n], ![n] = st[n - 1]]]
    ELSE [swapped |-> FALSE, stack |-> st]

\* swap_vertical_bar() that reports the bar but leaves the entries in place.
swap_vertical_bar_no_swap(st) ==
    LET n == Len(st) IN
    IF n >= 2 /\ is_vertical_bar(st[n - 1])
    THEN [swapped |-> TRUE, stack |-> st]
    ELSE [swapped |-> FALSE, stack |-> st]

swap_vertical_bar(st) ==
    LET n == Len(st) IN
    IF n >= 2 /\ is_vertical_bar(st[n - 1])
    THEN [swapped |-> TRUE,
          stack |-> [st EXCEPT ![n - 1] = st[n], ![n] = st[n - 1]]]
    ELSE [swapped |-> FALSE, stack |-> st]

\* self.stack.pop(), the stack that is left
pop(st) == SubSeq(st, 1, Len(st) - 1)

\* The common prefix of the ')' arm and of the finalization:
\* p.concat(); if p.swap_vertical_bar() { p.stack.pop(); p.alternate(); }
collapse(st) ==
    LET sw == swap_vertical_bar(concat(st)) IN
    IF sw.swapped
    THEN alternate(pop(sw.stack))
    ELSE [failed |-> FALSE, n |-> -1, stack |-> sw.stack]

\* match c { '*' => @Star(sub), '+' => @Plus(sub), '?' => @Quest(sub), _ => fail }
repeat_known(c) == c \in {"*", "+", "?"}
\* Operator match that takes '+' for '*'.
repeat_node_plus_as_star(c, sub) ==
    CASE c = "*" -> Star(sub)
      [] c = "+" -> Star(sub)
      [] OTHER -> Quest(sub)

\* Operator match that does not repeat a repetition of the same kind.
repeat_node_flatten(c, sub) ==
    CASE c = "*" -> IF sub.tag = "Star" THEN sub ELSE Star(sub)
      [] c = "+" -> IF sub.tag = "Plus" THEN sub ELSE Plus(sub)
      [] OTHER -> IF sub.tag = "Quest" THEN sub ELSE Quest(sub)
repeat_node(c, sub) ==
    CASE c = "*" -> Star(sub)
      [] c = "+" -> Plus(sub)
      [] OTHER -> Quest(sub)

----------------------------------------------------------------------------
\* fn parse

Init ==
    /\ s = <<>>
    /\ stack = <<>>
    /\ ncap = 0
    /\ ret = "none"
    /\ site = "none"
    /\ altn = -1
    /\ kept = <<>>
    /\ other = FALSE

\* The loop is running and the next character exists.
Scanning == ret = "none" /\ Len(s) < MaxLen

\* '(' arm that pushes the counter before incrementing it.
OpenParen_push_first ==
    /\ Scanning
    /\ s' = Append(s, "(")
    /\ ncap' = ncap + 1
    /\ stack' = Append(stack, LeftParen(ncap))
    /\ altn' = -1
    /\ UNCHANGED <<ret, site>>
    /\ UNCHANGED calls

\* '(' arm
OpenParen ==
    /\ Scanning
    /\ s' = Append(s, "(")
    /\ ncap' = ncap + 1
    /\ stack' = Append(stack, LeftParen(ncap + 1))
    /\ altn' = -1
    /\ UNCHANGED <<ret, site>>
    /\ UNCHANGED calls

\* '|' arm without the concat() call.
Bar_no_concat ==
    /\ Scanning
    /\ s' = Append(s, "|")
    /\ LET sw == swap_vertical_bar(stack) IN
       stack' = IF sw.swapped THEN sw.stack ELSE Append(sw.stack, VerticalBar)
    /\ altn' = -1
    /\ UNCHANGED <<ncap, ret, site>>
    /\ UNCHANGED calls

\* '|' arm that pushes a new bar every time.
Bar_always_push ==
    /\ Scanning
    /\ s' = Append(s, "|")
    /\ stack' = Append(concat(stack), VerticalBar)
    /\ altn' = -1
    /\ UNCHANGED <<ncap, ret, site>>
    /\ UNCHANGED calls

\* '|' arm
Bar ==
    /\ Scanning
    /\ s' = Append(s, "|")
    /\ LET sw == swap_vertical_bar(concat(stack)) IN
       stack' = IF sw.swapped THEN sw.stack ELSE Append(sw.stack, VerticalBar)
    /\ altn' = -1
    /\ UNCHANGED <<ncap, ret, site>>
    /\ UNCHANGED calls

\* ')' arm that skips a ')' with nothing to close instead of returning.
CloseParen_lenient ==
    /\ Scanning
    /\ s' = Append(s, ")")
    /\ LET c == collapse(stack)
           n == Len(c.stack)
       IN /\ altn' = c.n
          /\ IF c.failed
             THEN /\ stack' = c.stack
                  /\ ret' = "fail"
                  /\ site' = "alternate_fail"
             ELSE IF n < 2
             THEN /\ stack' = c.stack
                  /\ UNCHANGED <<ret, site>>
             ELSE LET sub == c.stack[n]
                      paren == c.stack[n - 1]
                      rest == SubSeq(c.stack, 1, n - 2)
                  IN IF is_left_paren(paren)
                     THEN /\ stack' = Append(rest, Capture(paren.cap, sub))
                          /\ UNCHANGED <<ret, site>>
                     ELSE /\ stack' = rest
                          /\ ret' = "MissingParen"
                          /\ site' = "close_marker"
    /\ UNCHANGED ncap
    /\ UNCHANGED calls

\* ')' arm that pushes the capture without popping the LeftParen.
CloseParen_keep_paren ==
    /\ Scanning
    /\ s' = Append(s, ")")
    /\ LET c == collapse(stack)
           n == Len(c.stack)
       IN /\ altn' = c.n
          /\ IF c.failed
             THEN /\ stack' = c.stack
                  /\ ret' = "fail"
                  /\ site' = "alternate_fail"
             ELSE IF n < 2
             THEN /\ stack' = c.stack
                  /\ ret' = "MissingParen"
                  /\ site' = "close_len"
             ELSE LET sub == c.stack[n]
                      paren == c.stack[n - 1]
                      rest == SubSeq(c.stack, 1, n - 1)
                  IN IF is_left_paren(paren)
                     THEN /\ stack' = Append(rest, Capture(paren.cap, sub))
                          /\ UNCHANGED <<ret, site>>
                     ELSE /\ stack' = rest
                          /\ ret' = "MissingParen"
                          /\ site' = "close_marker"
    /\ UNCHANGED ncap
    /\ UNCHANGED calls

\* ')' arm
CloseParen ==
    /\ Scanning
    /\ s' = Append(s, ")")
    /\ LET c == collapse(stack)
           n == Len(c.stack)
       IN /\ altn' = c.n
          /\ IF c.failed
             THEN /\ stack' = c.stack
                  /\ ret' = "fail"
                  /\ site' = "alternate_fail"
             ELSE IF n < 2
             THEN /\ stack' = c.stack
                  /\ ret' = "MissingParen"
                  /\ site' = "close_len"
             ELSE LET sub == c.stack[n]
                      paren == c.stack[n - 1]
                      rest == SubSeq(c.stack, 1, n - 2)
                  IN IF is_left_paren(paren)
                     THEN /\ stack' = Append(rest, Capture(paren.cap, sub))
                          /\ UNCHANGED <<ret, site>>
                     ELSE /\ stack' = rest
                          /\ ret' = "MissingParen"
                          /\ site' = "close_marker"
    /\ UNCHANGED ncap
    /\ UNCHANGED calls

\* Repeat arm that collapses the operands with concat() before wrapping.
Repeat_concat_first ==
    /\ Scanning
    /\ \E c \in RepeatOps :
        /\ s' = Append(s, c)
        /\ LET n == Len(stack) IN
           IF n < 1
           THEN /\ ret' = "RepeatArgument"
                /\ site' = "repeat_len"
                /\ UNCHANGED stack
           ELSE LET sub == stack[n] IN
                IF is_marker(sub)
                THEN /\ stack' = pop(stack)
                     /\ ret' = "RepeatArgument"
                     /\ site' = "repeat_marker"
                ELSE /\ stack' = Append(pop(concat(stack)),
                                        repeat_node(c, concat(stack)[Len(concat(stack))]))
                     /\ UNCHANGED <<ret, site>>
    /\ altn' = -1
    /\ UNCHANGED ncap
    /\ UNCHANGED calls

\* Repeat arm without the is_marker() test.
Repeat_no_marker_test ==
    /\ Scanning
    /\ \E c \in RepeatOps :
        /\ s' = Append(s, c)
        /\ LET n == Len(stack) IN
           IF n < 1
           THEN /\ ret' = "RepeatArgument"
                /\ site' = "repeat_len"
                /\ UNCHANGED stack
           ELSE /\ stack' = Append(pop(stack), repeat_node(c, stack[n]))
                /\ UNCHANGED <<ret, site>>
    /\ altn' = -1
    /\ UNCHANGED ncap
    /\ UNCHANGED calls

\* '*' | '+' | '?' arm
Repeat ==
    /\ Scanning
    /\ \E c \in RepeatOps :
        /\ s' = Append(s, c)
        /\ LET n == Len(stack) IN
           IF n < 1
           THEN /\ ret' = "RepeatArgument"
                /\ site' = "repeat_len"
                /\ UNCHANGED stack
           ELSE LET sub == stack[n] IN
                IF is_marker(sub)
                THEN /\ stack' = pop(stack)
                     /\ ret' = "RepeatArgument"
                     /\ site' = "repeat_marker"
                ELSE IF repeat_known(c)
                THEN /\ stack' = Append(pop(stack), repeat_node(c, sub))
                     /\ UNCHANGED <<ret, site>>
                ELSE /\ stack' = pop(stack)
                     /\ ret' = "fail"
                     /\ site' = "repeat_fail"
    /\ altn' = -1
    /\ UNCHANGED ncap
    /\ UNCHANGED calls

\* default arm
Char ==
    /\ Scanning
    /\ \E c \in Literals :
        /\ s' = Append(s, c)
        /\ stack' = Append(stack, Literal(c))
    /\ altn' = -1
    /\ UNCHANGED <<ncap, ret, site>>
    /\ UNCHANGED calls

\* Finalization that only rejects an empty stack.
Finish_nonempty ==
    /\ ret = "none"
    /\ LET c == collapse(stack) IN
       /\ altn' = c.n
       /\ stack' = c.stack
       /\ IF c.failed
          THEN ret' = "fail" /\ site' = "alternate_fail"
          ELSE IF Len(c.stack) < 1
          THEN ret' = "MissingParen" /\ site' = "final_len"
          ELSE ret' = "Ok" /\ site' = "final_ok"
    /\ UNCHANGED <<s, ncap>>
    /\ UNCHANGED calls

\* t is empty: the code after the loop
Finish ==
    /\ ret = "none"
    /\ LET c == collapse(stack) IN
       /\ altn' = c.n
       /\ stack' = c.stack
       /\ IF c.failed
          THEN ret' = "fail" /\ site' = "alternate_fail"
          ELSE IF Len(c.stack) # 1
          THEN ret' = "MissingParen" /\ site' = "final_len"
          ELSE ret' = "Ok" /\ site' = "final_ok"
    /\ UNCHANGED <<s, ncap>>
    /\ UNCHANGED calls

Next == OpenParen \/ Bar \/ CloseParen \/ Repeat \/ Char \/ Finish

Spec == Init /\ [][Next]_vars

----------------------------------------------------------------------------
\* Calls of parse one after the other

\* Longest pattern of a call when several calls are made.
MaxCallLen == 3

\* A call that takes over the counter of the call before it.
NewCall_keep_ncap ==
    /\ ret # "none"
    /\ s' = <<>>
    /\ stack' = <<>>
    /\ ncap' = ncap
    /\ ret' = "none"
    /\ site' = "none"
    /\ altn' = -1
    /\ \/ /\ kept = <<>>
          /\ kept' = <<[s |-> s, ret |-> ret, stack |-> stack]>>
          /\ other' = FALSE
       \/ /\ kept' = kept
          /\ other' = (other \/ (kept # <<>> /\ kept[1].s # s))

\* parse is called again after it returned: a new Parser with an empty
\* stack and a zero counter.  The call that returned may be kept for
\* comparison with later ones.
NewCall ==
    /\ ret # "none"
    /\ s' = <<>>
    /\ stack' = <<>>
    /\ ncap' = 0
    /\ ret' = "none"
    /\ site' = "none"
    /\ altn' = -1
    /\ \/ /\ kept = <<>>
          /\ kept' = <<[s |-> s, ret |-> ret, stack |-> stack]>>
          /\ other' = FALSE
       \/ /\ kept' = kept
          /\ other' = (other \/ (kept # <<>> /\ kept[1].s # s))

CallOpenParen == Len(s) < MaxCallLen /\ OpenParen
CallBar == Len(s) < MaxCallLen /\ Bar
CallCloseParen == Len(s) < MaxCallLen /\ CloseParen
CallRepeat == Len(s) < MaxCallLen /\ Repeat
CallChar == Len(s) < MaxCallLen /\ Char

NextCalls ==
    CallOpenParen \/ CallBar \/ CallCloseParen \/ CallRepeat \/ CallChar
        \/ Finish \/ NewCall

SpecCalls == Init /\ [][NextCalls]_vars

----------------------------------------------------------------------------
\* Reading trees and patterns (used by the properties below; none of these
\* uses an operator of the parser).

Last(q) == q[Len(q)]

IsSentinel(re) == re.tag = "LeftParen" \/ re.tag = "VerticalBar"

Children(re) ==
    CASE re.tag \in {"Concat", "Alternate"} -> re.subs
      [] re.tag \in {"Star", "Plus", "Quest", "Capture"} -> <<re.sub>>
      [] OTHER -> <<>>

\* Every node of a tree, the root included.
RECURSIVE Nodes(_)
Nodes(re) ==
    {re} \cup UNION {Nodes(Children(re)[i]) : i \in DOMAIN Children(re)}

StackNodes == UNION {Nodes(stack[i]) : i \in DOMAIN stack}

\* The number of Alternate nodes of a tree, counted with multiplicity.
RECURSIVE NumAlternate(_), NumAlternateSeq(_)
NumAlternate(re) ==
    (IF re.tag = "Alternate" THEN 1 ELSE 0) + NumAlternateSeq(Children(re))
NumAlternateSeq(q) ==
    IF q = <<>> THEN 0 ELSE NumAlternate(Head(q)) + NumAlternateSeq(Tail(q))

\* The capture indices of a tree in preorder.
RECURSIVE CaptureSeq(_), CaptureSeqs(_)
CaptureSeq(re) ==
    (IF re.tag = "Capture" THEN <<re.cap>> ELSE <<>>) \o CaptureSeqs(Children(re))
CaptureSeqs(q) ==
    IF q = <<>> THEN <<>> ELSE CaptureSeq(Head(q)) \o CaptureSeqs(Tail(q))

\* A tree printed back to pattern text.
RECURSIVE Unparse(_), UnparseSeq(_, _)
Unparse(re) ==
    CASE re.tag = "Empty" -> <<>>
      [] re.tag = "Literal" -> <<re.c>>
      [] re.tag = "Concat" -> UnparseSeq(re.subs, <<>>)
      [] re.tag = "Alternate" -> UnparseSeq(re.subs, <<"|">>)
      [] re.tag = "Star" -> Unparse(re.sub) \o <<"*">>
      [] re.tag = "Plus" -> Unparse(re.sub) \o <<"+">>
      [] re.tag = "Quest" -> Unparse(re.sub) \o <<"?">>
      [] re.tag = "Capture" -> <<"(">> \o Unparse(re.sub) \o <<")">>
      [] OTHER -> <<"#">>
UnparseSeq(q, sep) ==
    IF q = <<>> THEN <<>>
    ELSE IF Len(q) = 1 THEN Unparse(q[1])
    ELSE Unparse(Head(q)) \o sep \o UnparseSeq(Tail(q), sep)

Count(str, ch) == Cardinality({j \in 1..Len(str) : str[j] = ch})

\* '(' minus ')' among the first i characters of str.
DepthAt(str, i) ==
    Cardinality({j \in 1..i : str[j] = "("}) - Cardinality({j \in 1..i : str[j] = ")"})

Depth(str) == DepthAt(str, Len(str))

StrayClose(str) == \E i \in 1..Len(str) : DepthAt(str, i) < 0

Balanced(str) == ~StrayClose(str) /\ Depth(str) = 0

\* The position of the k-th '(' of str, and of the ')' that closes it.
OpenPos(str, k) ==
    CHOOSE p \in 1..Len(str) :
        str[p] = "(" /\ Cardinality({j \in 1..p : str[j] = "("}) = k
ClosePos(str, p) ==
    CHOOSE q \in (p + 1)..Len(str) :
        /\ DepthAt(str, q) = DepthAt(str, p) - 1
        /\ \A r \in p..(q - 1) : DepthAt(str, r) >= DepthAt(str, p)

\* The text of group k of str; group 0 is the whole pattern.
GroupText(str, k) ==
    IF k = 0 THEN str
    ELSE LET p == OpenPos(str, k) IN SubSeq(str, p + 1, ClosePos(str, p) - 1)

\* The '|' of txt outside every group of txt, and the branches they delimit.
TopBars(txt) == {j \in 1..Len(txt) : txt[j] = "|" /\ DepthAt(txt, j) = 0}
Cuts(txt) == TopBars(txt) \cup {0, Len(txt) + 1}
NthCut(txt, i) ==
    CHOOSE p \in Cuts(txt) : Cardinality({q \in Cuts(txt) : q < p}) = i - 1
Branch(txt, i) == SubSeq(txt, NthCut(txt, i) + 1, NthCut(txt, i + 1) - 1)

----------------------------------------------------------------------------
\* C1: a tree returned by parse has no LeftParen and no VerticalBar node at
\* any depth.
NoSentinelReturned ==
    ret = "Ok" => \A n \in Nodes(stack[1]) : ~IsSentinel(n)

\* A group holding an alternation was closed and returned inside a Concat.
NoSentinelWitness ==
    /\ ret = "Ok"
    /\ stack[1].tag = "Concat"
    /\ \E n \in Nodes(stack[1]) : n.tag = "Capture" /\ n.sub.tag = "Alternate"

\* C2: no Concat or Alternate on the stack or in a returned tree has fewer
\* than 2 children, and concat() and alternate() leave a single collected
\* operand as it is.
TopRun(st) ==
    Cardinality({i \in DOMAIN st : \A j \in i..Len(st) : ~IsSentinel(st[j])})
CollapseLaw ==
    /\ \A n \in StackNodes :
          n.tag \in {"Concat", "Alternate"} => Len(n.subs) >= 2
    /\ TopRun(stack) = 1 =>
          /\ concat(stack) = stack
          /\ alternate(stack).stack = stack

\* An alternation with a two-operand branch and a one-operand branch.
CollapseLawWitness ==
    /\ ret = "Ok"
    /\ stack[1].tag = "Alternate"
    /\ \E i \in DOMAIN stack[1].subs : stack[1].subs[i].tag = "Concat"
    /\ \E i \in DOMAIN stack[1].subs : stack[1].subs[i].tag = "Literal"

\* C3: a level of the pattern with n >= 1 '|' of its own is returned as one
\* Alternate of n + 1 children, the branches of the level in pattern order,
\* none of them an Alternate; a level without '|' is not an Alternate, and
\* the tree has no other Alternate.
LevelFlat(body, txt) ==
    LET n == Cardinality(TopBars(txt)) IN
    IF n >= 1
    THEN /\ body.tag = "Alternate"
         /\ Len(body.subs) = n + 1
         /\ \A i \in 1..Len(body.subs) :
               /\ body.subs[i].tag # "Alternate"
               /\ Unparse(body.subs[i]) = Branch(txt, i)
    ELSE body.tag # "Alternate"
AlternationFlat ==
    ret = "Ok" =>
        /\ LevelFlat(stack[1], s)
        /\ \A n \in Nodes(stack[1]) :
              n.tag = "Capture" => LevelFlat(n.sub, GroupText(s, n.cap))
        /\ NumAlternate(stack[1]) =
              Cardinality({k \in 0..Count(s, "(") : TopBars(GroupText(s, k)) # {}})

\* A chain of three branches at the top level, one of them a group that
\* holds an alternation of its own.
AlternationFlatWitness ==
    /\ ret = "Ok"
    /\ stack[1].tag = "Alternate"
    /\ Len(stack[1].subs) >= 3
    /\ \E i \in DOMAIN stack[1].subs :
          /\ stack[1].subs[i].tag = "Capture"
          /\ stack[1].subs[i].sub.tag = "Alternate"

\* C4: the k-th '(' of the pattern pushes LeftParen(k) and is returned as
\* Capture(k, ...): the capture indices of a returned tree are 1..N in
\* pattern order, each once, and Capture k holds the text of group k.
CaptureOrder ==
    /\ ncap = Count(s, "(")
    /\ (ret = "none" /\ s # <<>> /\ Last(s) = "(") =>
          Last(stack) = [tag |-> "LeftParen", cap |-> Count(s, "(")]
    /\ ret = "Ok" =>
          /\ CaptureSeq(stack[1]) = [k \in 1..Count(s, "(") |-> k]
          /\ \A n \in Nodes(stack[1]) :
                n.tag = "Capture" => Unparse(n.sub) = GroupText(s, n.cap)

\* Three groups, the second and third nested in the first.
CaptureOrderWitness ==
    /\ ret = "Ok"
    /\ stack[1].tag = "Capture"
    /\ stack[1].cap = 1
    /\ stack[1].sub.tag = "Concat"
    /\ stack[1].sub.subs[1].tag = "Capture"
    /\ stack[1].sub.subs[2].tag = "Capture"
    /\ stack[1].sub.subs[2].cap = 3

\* C5: when no RepeatArgument is returned, parse returns MissingParen
\* exactly for the patterns with a ')' that closes nothing or an unclosed
\* '(', and Ok for the balanced ones; a ')' that closes nothing is never
\* scanned past.
ParenBalance ==
    /\ ret = "none" => ~StrayClose(s)
    /\ ret = "Ok" => Balanced(s)
    /\ ret = "MissingParen" => StrayClose(s) \/ Depth(s) > 0
    /\ (ret \in {"Ok", "MissingParen"} /\ ~Balanced(s)) => ret = "MissingParen"

\* A ')' with nothing to close after a group that was closed.
ParenBalanceWitness ==
    /\ ret = "MissingParen"
    /\ site = "close_len"
    /\ ncap >= 1
    /\ Len(s) >= 3

\* C6: a repeat operator returns RepeatArgument exactly when the stack is
\* empty or its top is a sentinel, which is when the operator is the first
\* character or follows '(' or '|'; after a literal, a ')' or a repeat
\* operator it returns nothing.
AfterRepeat == s # <<>> /\ Last(s) \in RepeatOps /\ site \notin {"final_ok", "final_len"}
RepeatError ==
    /\ AfterRepeat =>
          /\ ret \in {"none", "RepeatArgument"}
          /\ ret = "RepeatArgument" <=>
                (Len(s) = 1 \/ s[Len(s) - 1] \in {"(", "|"})
          /\ ret = "none" => Last(stack).tag \in {"Star", "Plus", "Quest"}
    /\ ret = "RepeatArgument" => AfterRepeat
    /\ site = "repeat_len" <=> (ret = "RepeatArgument" /\ Len(s) = 1)

\* A repeat operator right after the '|' of an open group.
RepeatErrorWitness ==
    /\ ret = "RepeatArgument"
    /\ site = "repeat_marker"
    /\ Len(s) >= 3
    /\ s[Len(s) - 1] = "|"
    /\ Depth(s) > 0

\* C7: the error returned is the one of the first character that raises
\* one, nothing is read after it, and no Ok is returned for such a pattern.
RaisedAt(str, i) ==
    IF str[i] \in RepeatOps /\ (i = 1 \/ str[i - 1] \in {"(", "|"})
    THEN "RepeatArgument"
    ELSE IF str[i] = ")" /\ DepthAt(str, i) < 0
    THEN "MissingParen"
    ELSE "none"
FailFastState ==
    /\ \A i \in 1..(Len(s) - 1) : RaisedAt(s, i) = "none"
    /\ ret = "none" /\ s # <<>> => RaisedAt(s, Len(s)) = "none"
    /\ site \in {"close_len", "close_marker", "repeat_len", "repeat_marker"} =>
          RaisedAt(s, Len(s)) = ret
    /\ site \in {"final_ok", "final_len"} /\ s # <<>> => RaisedAt(s, Len(s)) = "none"
FailFast ==
    /\ []FailFastState
    /\ [][ret # "none" => (ret' = ret /\ s' = s /\ stack' = stack)]_vars

\* "(*": an unclosed '(' and then a misplaced repeat operator.
FailFastWitness ==
    /\ ret = "RepeatArgument"
    /\ s = <<"(", "*">>

\* C8: no run of parse reaches a fail arm: alternate() never collects zero
\* operands, the repeat arm always knows its operator, and parse ends in
\* Ok, MissingParen or RepeatArgument.
NoInternalFail ==
    /\ ret \in {"none", "Ok", "MissingParen", "RepeatArgument"}
    /\ site \notin {"alternate_fail", "repeat_fail"}
    /\ altn # 0

\* alternate() was called at the end of a pattern with a repetition in it.
NoInternalFailWitness ==
    /\ ret = "Ok"
    /\ altn >= 2
    /\ \E n \in Nodes(stack[1]) : n.tag \in {"Star", "Plus", "Quest"}

\* C9: between two consecutive LeftParen of the stack, below the lowest
\* and above the highest, there is at most one VerticalBar, and right after
\* a '|' the bar is the top of the stack.
OneBarPerGroup ==
    /\ \A i, j \in DOMAIN stack :
          (i < j /\ stack[i].tag = "VerticalBar" /\ stack[j].tag = "VerticalBar") =>
              \E k \in i..j : stack[k].tag = "LeftParen"
    /\ (ret = "none" /\ s # <<>> /\ Last(s) = "|") =>
          Last(stack).tag = "VerticalBar"

\* The third '|' of a pattern, the second one of its level, with a bar
\* live at the level below.
OneBarPerGroupWitness ==
    /\ ret = "none"
    /\ s # <<>>
    /\ Last(s) = "|"
    /\ Count(s, "|") >= 3
    /\ Cardinality({i \in DOMAIN stack : stack[i].tag = "VerticalBar"}) = 2

\* C10: while the scan runs the stack holds one LeftParen per open group,
\* with indices increasing from the bottom up, and a stack returned with Ok
\* is a single operand.
ParenIdx == {i \in DOMAIN stack : stack[i].tag = "LeftParen"}
StackInvariant ==
    /\ ret = "none" =>
          /\ Cardinality(ParenIdx) = Count(s, "(") - Count(s, ")")
          /\ \A i, j \in ParenIdx : i < j => stack[i].cap < stack[j].cap
    /\ ret = "Ok" => Len(stack) = 1 /\ ~IsSentinel(stack[1])

\* Two groups open after one was closed.
StackInvariantWitness ==
    /\ ret = "none"
    /\ Cardinality(ParenIdx) = 2
    /\ Count(s, ")") >= 1

\* C11: the Literal leaves of a returned tree, read left to right, are the
\* pattern without its '(', ')', '|', '*', '+' and '?'.
RECURSIVE LiteralSeq(_), LiteralSeqs(_)
LiteralSeq(re) ==
    (IF re.tag = "Literal" THEN <<re.c>> ELSE <<>>) \o LiteralSeqs(Children(re))
LiteralSeqs(q) ==
    IF q = <<>> THEN <<>> ELSE LiteralSeq(Head(q)) \o LiteralSeqs(Tail(q))
IsOrdinary(c) == c \notin {"(", ")", "|", "*", "+", "?"}
LiteralLeaves ==
    ret = "Ok" => LiteralSeq(stack[1]) = SelectSeq(s, IsOrdinary)

\* Three literals, both letters among them, in a pattern with operators.
LiteralLeavesWitness ==
    /\ ret = "Ok"
    /\ Len(LiteralSeq(stack[1])) >= 3
    /\ Len(s) >= 5
    /\ \E i, j \in 1..Len(s) : i < j /\ s[i] = "b" /\ s[j] = "a"

\* C12: every branch, group body or whole pattern without an operand is
\* returned as one Empty node and nothing else is; "", "()", "(|)" and "||"
\* are accepted with the trees Empty, Capture(1, Empty),
\* Capture(1, Alternate([Empty, Empty])) and Alternate([Empty, Empty, Empty]).
RECURSIVE NumEmpty(_), NumEmptySeq(_)
NumEmpty(re) ==
    (IF re.tag = "Empty" THEN 1 ELSE 0) + NumEmptySeq(Children(re))
NumEmptySeq(q) ==
    IF q = <<>> THEN 0 ELSE NumEmpty(Head(q)) + NumEmptySeq(Tail(q))
EmptyBranches(str) ==
    {ki \in (0..Count(str, "(")) \X (1..(Len(str) + 1)) :
        /\ ki[2] <= Cardinality(TopBars(GroupText(str, ki[1]))) + 1
        /\ Branch(GroupText(str, ki[1]), ki[2]) = <<>>}
NoOperand == [tag |-> "Empty"]
EmptyBranch ==
    /\ ret = "Ok" => NumEmpty(stack[1]) = Cardinality(EmptyBranches(s))
    /\ (ret # "none" /\ s = <<>>) => (ret = "Ok" /\ stack = <<NoOperand>>)
    /\ (ret # "none" /\ s = <<"(", ")">>) =>
          (ret = "Ok" /\ stack = <<[tag |-> "Capture", cap |-> 1, sub |-> NoOperand]>>)
    /\ (ret # "none" /\ s = <<"(", "|", ")">>) =>
          /\ ret = "Ok"
          /\ stack = <<[tag |-> "Capture", cap |-> 1,
                        sub |-> [tag |-> "Alternate", subs |-> <<NoOperand, NoOperand>>]]>>
    /\ (ret # "none" /\ s = <<"|", "|">>) =>
          /\ ret = "Ok"
          /\ stack = <<[tag |-> "Alternate", subs |-> <<NoOperand, NoOperand, NoOperand>>]>>

\* "(|)" was accepted.
EmptyBranchWitness ==
    /\ ret = "Ok"
    /\ s = <<"(", "|", ")">>
    /\ NumEmpty(stack[1]) = 2

\* C13: after an operand and k >= 1 repeat operators the top of the stack
\* is the operand in k wrappers, that of the first operator innermost, and
\* no error is returned; "a**" is returned as Star(Star(Literal a)).
RunLen(str) ==
    Cardinality({i \in 1..Len(str) : \A j \in i..Len(str) : str[j] \in RepeatOps})
RECURSIVE Peel(_, _)
Peel(re, j) == IF j = 0 THEN re ELSE Peel(re.sub, j - 1)
WrapperOf(c) == IF c = "*" THEN "Star" ELSE IF c = "+" THEN "Plus" ELSE "Quest"
RepeatNest ==
    /\ LET k == RunLen(s)
           n == Len(s)
       IN (/\ k >= 1
           /\ k < n
           /\ s[n - k] \notin {"(", "|"}
           /\ site \notin {"final_ok", "final_len"}) =>
              /\ ret = "none"
              /\ \A j \in 1..k :
                    /\ Peel(Last(stack), j - 1).tag \in {"Star", "Plus", "Quest"}
                    /\ Peel(Last(stack), j - 1).tag = WrapperOf(s[n - j + 1])
              /\ IF s[n - k] = ")"
                 THEN Peel(Last(stack), k).tag = "Capture"
                 ELSE Peel(Last(stack), k) = [tag |-> "Literal", c |-> s[n - k]]
    /\ (ret = "Ok" /\ s = <<"a", "*", "*">>) =>
          stack[1] = [tag |-> "Star", sub |->
                        [tag |-> "Star", sub |-> [tag |-> "Literal", c |-> "a"]]]

\* A group followed by three repeat operators, two of them the same.
RepeatNestWitness ==
    /\ ret = "none"
    /\ Len(s) >= 5
    /\ RunLen(s) = 3
    /\ s[Len(s) - 3] = ")"
    /\ s[Len(s)] = s[Len(s) - 1]

\* C15: concat() replaces the k operands above the nearest sentinel by one
\* entry (Empty for k = 0, the operand for k = 1, Concat of the k operands
\* in stack order otherwise), leaves everything below in place, changes the
\* length by 1 - k and leaves an operand on top; a finalization that does
\* not call alternate() leaves exactly that stack.
ConcatResult(st) ==
    LET k == TopRun(st)
        n == Len(st)
        re == IF k = 0 THEN [tag |-> "Empty"]
              ELSE IF k = 1 THEN st[n]
              ELSE [tag |-> "Concat", subs |-> SubSeq(st, n - k + 1, n)]
    IN SubSeq(st, 1, n - k) \o <<re>>
ConcatFrameState ==
    LET k == TopRun(stack)
        n == Len(stack)
        r == concat(stack)
    IN /\ Len(r) = n + 1 - k
       /\ \A i \in 1..(n - k) : r[i] = stack[i]
       /\ r = ConcatResult(stack)
       /\ ~IsSentinel(Last(r))
ConcatFrame ==
    /\ []ConcatFrameState
    /\ [][(ret = "none" /\ ret' # "none" /\ s' = s /\ altn' = -1) =>
             stack' = ConcatResult(stack)]_vars

\* The end of a pattern whose open group holds two or more operands.
ConcatFrameWitness ==
    /\ site = "final_len"
    /\ altn = -1
    /\ Len(stack) >= 2
    /\ Last(stack).tag = "Concat"
    /\ IsSentinel(stack[Len(stack) - 1])

\* C16: swap_vertical_bar() returns true exactly when the stack has two
\* entries or more and the one below the top is VerticalBar; it then
\* exchanges the top two entries and nothing else, and otherwise leaves the
\* stack as it is.  A '|' step leaves the collapsed stack with the bar moved
\* to the top, or with a new bar pushed.
BarBelowTop(st) == Len(st) >= 2 /\ st[Len(st) - 1].tag = "VerticalBar"
Exchanged(st) ==
    [i \in 1..Len(st) |->
        IF i = Len(st) THEN st[Len(st) - 1]
        ELSE IF i = Len(st) - 1 THEN st[Len(st)]
        ELSE st[i]]
SwapFrameState ==
    LET r == swap_vertical_bar(stack) IN
    /\ r.swapped <=> BarBelowTop(stack)
    /\ r.swapped => r.stack = Exchanged(stack)
    /\ ~r.swapped => r.stack = stack
SwapFrame ==
    /\ []SwapFrameState
    /\ [][s' = Append(s, "|") =>
             LET c == ConcatResult(stack) IN
             stack' = IF BarBelowTop(c) THEN Exchanged(c)
                      ELSE c \o <<[tag |-> "VerticalBar"]>>]_vars

\* The second '|' of a level: the bar was moved above the second branch.
SwapFrameWitness ==
    /\ ret = "none"
    /\ s # <<>>
    /\ Last(s) = "|"
    /\ Len(stack) >= 3
    /\ Last(stack).tag = "VerticalBar"
    /\ ~IsSentinel(stack[Len(stack) - 1])
    /\ ~IsSentinel(stack[Len(stack) - 2])

\* C17: the marker popped by a ')' is always a LeftParen: the return of
\* MissingParen for another marker is never taken, a ')' returns
\* MissingParen only from the length test, and a ')' that returns nothing
\* leaves a Capture on top.
MarkerIsParen ==
    /\ site # "close_marker"
    /\ (ret = "MissingParen" /\ site # "final_len") =>
          (site = "close_len" /\ Last(s) = ")")
    /\ (ret = "none" /\ s # <<>> /\ Last(s) = ")") =>
          Last(stack).tag = "Capture"

\* A group holding an alternation is closed above the bar of the level
\* below.
MarkerIsParenWitness ==
    /\ ret = "none"
    /\ s # <<>>
    /\ Last(s) = ")"
    /\ altn >= 2
    /\ Len(stack) >= 3
    /\ stack[Len(stack) - 1].tag = "VerticalBar"

\* C18: every alternate() call of parse collects 2 operands or more and
\* pushes an Alternate of them.
AlternateCollectsTwo ==
    /\ altn = -1 \/ altn >= 2
    /\ altn >= 2 =>
          LET alt == IF ret = "none" THEN Last(stack).sub ELSE Last(stack) IN
          /\ alt.tag = "Alternate"
          /\ Len(alt.subs) = altn

\* A ')' that collected three branches.
AlternateCollectsTwoWitness ==
    /\ ret = "none"
    /\ altn >= 3

\* C19: in a returned tree the operand of Star, Plus or Quest and every
\* child of a Concat is a Literal, a Capture or a Star, Plus or Quest.
AtomTags == {"Literal", "Capture", "Star", "Plus", "Quest"}
RepeatBindsAtom ==
    ret = "Ok" =>
        \A n \in Nodes(stack[1]) :
            /\ n.tag \in {"Star", "Plus", "Quest"} => n.sub.tag \in AtomTags
            /\ n.tag = "Concat" =>
                  \A i \in DOMAIN n.subs : n.subs[i].tag \in AtomTags

\* A repetition after two operands, inside a Concat of three.
RepeatBindsAtomWitness ==
    /\ ret = "Ok"
    /\ stack[1].tag = "Concat"
    /\ Len(stack[1].subs) >= 3
    /\ \E i \in 2..Len(stack[1].subs) :
          stack[1].subs[i].tag \in {"Star", "Plus", "Quest"}

\* C20: a returned tree printed back to text is the pattern.
RoundTrip ==
    ret = "Ok" => Unparse(stack[1]) = s

\* A tree with a Concat, a repetition, a Capture, an Alternate and an Empty.
RoundTripWitness ==
    /\ ret = "Ok"
    /\ {n.tag : n \in Nodes(stack[1])} \cap {"Star", "Plus", "Quest"} # {}
    /\ {"Concat", "Capture", "Alternate", "Empty", "Literal"} \subseteq
          {n.tag : n \in Nodes(stack[1])}

\* C14: a call of parse returns what an earlier call returned for the same
\* pattern, also with a call for another pattern in between; every call
\* starts with an empty stack and a zero counter, and its first '(' gets
\* index 1.
SameResult ==
    /\ (kept # <<>> /\ ret # "none" /\ s = kept[1].s) =>
          /\ ret = kept[1].ret
          /\ ret = "Ok" => stack[1] = kept[1].stack[1]
    /\ (ret = "none" /\ s = <<>>) => (stack = <<>> /\ ncap = 0)
    /\ (ret = "none" /\ s # <<>> /\ Last(s) = "(" /\ Count(s, "(") = 1) =>
          Last(stack) = [tag |-> "LeftParen", cap |-> 1]

\* A pattern with a group is accepted a second time after a call for
\* another pattern.
SameResultWitness ==
    /\ kept # <<>>
    /\ other
    /\ ret = "Ok"
    /\ s = kept[1].s
    /\ ncap >= 1

====
